---- MODULE Spec2Model ----
(***************************************************************************)
(* Model of the actor runtime of src/src/lib.rs: one worker thread per     *)
(* actor that owns the receiving end of an mpsc channel, and any number of *)
(* handles (Actor<M> values) that tell, kill, clone, drop and wait.        *)
(*                                                                         *)
(* The worker's position is wpc; each handle h is driven by one caller     *)
(* thread whose position is hpc[h].  Every statement of the source that    *)
(* another thread can observe is one action.                               *)
(***************************************************************************)
EXTENDS Integers, Sequences, FiniteSets, TLC

\* ---------------------------------------------------------------- bounds
MaxHandles == 2      \* handles that ever exist (the original and its clones)
MaxTells == 2        \* tell() calls over all handles
MaxKills == 2        \* kill() calls over all handles
MaxSpurious == 1     \* spurious wake-ups of Condvar::wait over all waiters
MaxBacklog == 2      \* unrecorded messages in the mailbox at one time

Handles == 1..MaxHandles

\* ------------------------------------------------------------ vocabulary
\* A mailbox item is Option<M>: Some(message) or None (the stop marker).
\* A message is the pair <<sender handle, index of the tell on that handle>>.
None == <<0, 0>>

\* The message of a tell() whose result is not recorded (see TellMore): the
\* runtime never looks into a message, so these all carry the same one.
More == <<0, 1>>

\* Owner of the is_dead mutex: nobody, the worker, or the handle number of
\* the thread inside wait().
Free == 0
Worker == -1

Modes == {"graceful", "disgraceful"}

VARIABLES
    mode,         \* which constructor built the actor
    should_die,   \* Arc<AtomicBool>
    is_dead,      \* contents of Arc<Mutex<bool>>
    mutex,        \* owner of the Mutex guarding is_dead
    mailbox,      \* items in the mpsc channel, oldest first
    rx_alive,     \* the Receiver (consumer) has not been dropped
    wpc,          \* position of the worker thread
    cur,          \* message the worker has taken and handed to interpret
    interpreted,  \* messages passed to interpreter.interpret, in call order
    hpc,          \* position of the caller thread of each handle
    res,          \* per handle, the results of its tell() calls, in order
    kills,        \* per handle, the number of kill() calls begun on it
    preKill,      \* per handle, the tells completed before any kill() began
    lateWait,     \* per handle, wait() was called when is_dead was already true
    stopsTaken,   \* stop markers the worker has taken out of the mailbox
    spurious,     \* spurious wake-ups so far
    midKill,      \* should_die was first set while a message was in interpret
    terminated,   \* the interpreter has returned the 'terminate now' signal
    lateTell      \* a tell() of More was accepted after should_die was set

vars == <<mode, should_die, is_dead, mutex, mailbox, rx_alive, wpc, cur,
          interpreted, hpc, res, kills, preKill, lateWait, stopsTaken,
          spurious, midKill, terminated, lateTell>>

\* --------------------------------------------------------------- helpers
\* Positions of the worker inside loop_until_killed.
InLoop == {"check", "recv", "in_interp"}
\* Positions of the worker inside cleanup.
InCleanup == {"cleanup", "c_in_interp"}

\* The worker closure owns `actor`, whose field `channel` is a Sender; it is
\* released by drop(self) in die(), or by unwinding after a panic.
WorkerHoldsSender == wpc \in InLoop \cup InCleanup \cup {"die_drop", "panicking"}

\* A handle owns a Sender from its creation until it is dropped or consumed
\* by wait().
HandleHoldsSender(h) == hpc[h] \in {"held", "kill_send"}

\* Number of live Sender clones of the channel.
Senders ==
    Cardinality({h \in Handles : HandleHoldsSender(h)})
        + (IF WorkerHoldsSender THEN 1 ELSE 0)

\* Outcome of Receiver::recv: the oldest item, RecvError when the channel is
\* empty and every Sender is gone, or the call keeps blocking.
RecvResult ==
    IF mailbox # <<>> THEN "item"
    ELSE IF Senders = 0 THEN "RecvError"
    ELSE "blocked"

\* The mailbox after recv or try_recv has returned its oldest item.
\* (A slip: the item is read but left in the channel.)
TakenLeftInPlace(mb) == mb
Taken(mb) == Tail(mb)

\* Where the worker closure goes when loop_until_killed returns.
\* (Two slips: both constructors drain, neither does.)
AfterLoopAlwaysCleanup(m) == "cleanup"
AfterLoopNeverCleanup(m) == "die_drop"
AfterLoop(m) == IF m = "graceful" THEN "cleanup" ELSE "die_drop"

\* Where the worker closure goes when cleanup returns.
AfterCleanup == "die_drop"

\* What cleanup does with a stop marker: `None => ()`, the drain goes on.
\* (A slip: the drain stops at the marker.)
CleanupOnStopEndsDrain == "die_drop"
CleanupOnStop == "cleanup"

\* Where the worker closure goes when die returns.
\* (A slip: die is called before cleanup.)
AfterDieThenCleanup == "cleanup"
AfterDie == "closure_end"

\* Condvar::notify_all: every thread parked in Condvar::wait is woken.
\* (A slip: nobody is woken.)
NotifyAllForgotten(pcs) == pcs
NotifyAll(pcs) ==
    [h \in Handles |-> IF pcs[h] = "w_blocked" THEN "w_wake" ELSE pcs[h]]

\* Where the worker goes when interpret returns normally.
AfterInterpretOnFlagDies(pc) ==
    IF should_die THEN "die_drop"
    ELSE IF pc = "in_interp" THEN "check" ELSE "cleanup"
AfterInterpret(pc) == IF pc = "in_interp" THEN "check" ELSE "cleanup"

\* Number of tell() calls made so far.
Tells == LET RECURSIVE Sum(_)
             Sum(n) == IF n = 0 THEN 0 ELSE Len(res[n]) + Sum(n - 1)
         IN Sum(MaxHandles)

\* Number of kill() calls begun so far.
TotalKills == LET RECURSIVE Sum(_)
                  Sum(n) == IF n = 0 THEN 0 ELSE kills[n] + Sum(n - 1)
              IN Sum(MaxHandles)

\* The interpreter call has failed (panicked).
Failed == wpc \in {"panicking", "aborted"}

\* ------------------------------------------------------------------ Init
\* State returned by Actor::graceful / Actor::disgraceful: the worker thread
\* is spawned and owns `actor`, the caller holds `cloned_actor` (handle 1).
Init ==
    /\ mode \in Modes
    /\ should_die = FALSE
    /\ is_dead = FALSE
    /\ mutex = Free
    /\ mailbox = <<>>
    /\ rx_alive = TRUE
    /\ wpc = "check"
    /\ cur = None
    /\ interpreted = <<>>
    /\ hpc = [h \in Handles |-> IF h = 1 THEN "held" ELSE "none"]
    /\ res = [h \in Handles |-> <<>>]
    /\ kills = [h \in Handles |-> 0]
    /\ preKill = [h \in Handles |-> 0]
    /\ lateWait = [h \in Handles |-> FALSE]
    /\ stopsTaken = 0
    /\ spurious = 0
    /\ midKill = FALSE
    /\ terminated = FALSE
    /\ lateTell = FALSE

\* ------------------------------------------------------- handle operations
\* Sender::send: fails iff the Receiver has been dropped.
\* (Two slips: tell refuses once is_dead is set, or once should_die is set.)
SendOkUntilLatch == rx_alive /\ ~is_dead
SendOkUntilKilled == rx_alive /\ ~should_die
SendOk == rx_alive

\* Actor::tell
Tell(h) ==
    /\ hpc[h] = "held"
    /\ Tells < MaxTells
    /\ LET m == <<h, Len(res[h]) + 1>> IN
       IF SendOk
       THEN /\ mailbox' = Append(mailbox, m)
            /\ res' = [res EXCEPT ![h] = Append(@, "Ok")]
       ELSE /\ mailbox' = mailbox
            /\ res' = [res EXCEPT ![h] = Append(@, "DeadActor")]
    /\ preKill' = IF should_die THEN preKill
                  ELSE [preKill EXCEPT ![h] = Len(res[h]) + 1]
    /\ UNCHANGED <<mode, should_die, is_dead, mutex, rx_alive, wpc, cur,
                   interpreted, hpc, kills, lateWait, stopsTaken, spurious,
                   midKill, terminated, lateTell>>

\* Unrecorded messages now in the mailbox.
Backlog == Cardinality({i \in 1..Len(mailbox) : mailbox[i] = More})

\* Actor::tell without the record of its result in res, so that a sender
\* may go on telling without end.  The message is More.  A call that finds
\* the Receiver gone returns DeadActor and changes nothing.
TellMore(h) ==
    /\ hpc[h] = "held"
    /\ SendOk
    /\ Backlog < MaxBacklog
    /\ mailbox' = Append(mailbox, More)
    /\ lateTell' = (lateTell \/ should_die)
    /\ UNCHANGED <<mode, should_die, is_dead, mutex, rx_alive, wpc, cur,
                   interpreted, hpc, res, kills, preKill, lateWait,
                   stopsTaken, spurious, midKill, terminated>>

\* The value of should_die after `should_die.store(true, SeqCst)`.
\* (A slip: the flag is flipped instead of set.)
StoreFlagFlipped(old) == ~old
StoreFlag(old) == TRUE

\* Actor::kill, first statement: should_die.store(true)
KillStore(h) ==
    /\ hpc[h] = "held"
    /\ TotalKills < MaxKills
    /\ should_die' = StoreFlag(should_die)
    /\ hpc' = [hpc EXCEPT ![h] = "kill_send"]
    /\ kills' = [kills EXCEPT ![h] = @ + 1]
    /\ midKill' = (midKill
                    \/ (~should_die /\ wpc \in {"in_interp", "c_in_interp"}))
    /\ UNCHANGED <<mode, is_dead, mutex, mailbox, rx_alive, wpc, cur,
                   interpreted, res, preKill, lateWait, stopsTaken, spurious,
                   terminated, lateTell>>

\* The mailbox after channel.send(None) has succeeded.
\* (A slip: kill only sets the flag.)
SendStopForgotten(mb) == mb
SendStop(mb) == Append(mb, None)

\* Actor::kill, second statement: channel.send(None), its error swallowed
KillSend(h) ==
    /\ hpc[h] = "kill_send"
    /\ mailbox' = IF SendOk THEN SendStop(mailbox) ELSE mailbox
    /\ hpc' = [hpc EXCEPT ![h] = "held"]
    /\ UNCHANGED <<mode, should_die, is_dead, mutex, rx_alive, wpc, cur,
                   interpreted, res, kills, preKill, lateWait, stopsTaken,
                   spurious,
                   midKill, terminated, lateTell>>

\* Clone for Actor<M>: a new handle on the same channel, flag and latch
Clone(h) ==
    /\ hpc[h] = "held"
    /\ \E n \in Handles :
        /\ hpc[n] = "none"
        /\ \A k \in Handles : k < n => hpc[k] # "none"
        /\ hpc' = [hpc EXCEPT ![n] = "held"]
    /\ UNCHANGED <<mode, should_die, is_dead, mutex, mailbox, rx_alive, wpc,
                   cur, interpreted, res, kills, preKill, lateWait,
                   stopsTaken, spurious,
                   midKill, terminated, lateTell>>

\* A handle goes out of scope: its Sender and Arcs are released
Drop(h) ==
    /\ hpc[h] = "held"
    /\ hpc' = [hpc EXCEPT ![h] = "dropped"]
    /\ UNCHANGED <<mode, should_die, is_dead, mutex, mailbox, rx_alive, wpc,
                   cur, interpreted, res, kills, preKill, lateWait,
                   stopsTaken, spurious,
                   midKill, terminated, lateTell>>

\* Actor::wait, up to drop(self): the handle is consumed
WaitStart(h) ==
    /\ hpc[h] = "held"
    /\ hpc' = [hpc EXCEPT ![h] = "w_lock"]
    /\ lateWait' = [lateWait EXCEPT ![h] = is_dead]
    /\ UNCHANGED <<mode, should_die, is_dead, mutex, mailbox, rx_alive, wpc,
                   cur, interpreted, res, kills, preKill, stopsTaken, spurious,
                   midKill, terminated, lateTell>>

\* Actor::wait: is_dead.lock(), and the re-acquisition of the mutex when
\* Condvar::wait returns
WaitLock(h) ==
    /\ hpc[h] \in {"w_lock", "w_wake"}
    /\ mutex = Free
    /\ mutex' = h
    /\ hpc' = [hpc EXCEPT ![h] = "w_check"]
    /\ UNCHANGED <<mode, should_die, is_dead, mailbox, rx_alive, wpc, cur,
                   interpreted, res, kills, preKill, lateWait, stopsTaken, spurious,
                   midKill, terminated, lateTell>>

\* The test of `while !*guard`, read under the mutex.
\* (A slip: wait parks without looking at is_dead.)
WaitMustBlockAlways(dead) == TRUE
WaitMustBlock(dead) == ~dead

\* Actor::wait: `while !*guard { guard = till_death.wait(guard) }`; either
\* the loop ends and the guard is released on return, or Condvar::wait
\* releases the mutex and parks the thread, atomically
WaitCheck(h) ==
    /\ hpc[h] = "w_check"
    /\ mutex = h
    /\ mutex' = Free
    /\ hpc' = [hpc EXCEPT ![h] = IF WaitMustBlock(is_dead) THEN "w_blocked"
                                 ELSE "done"]
    /\ UNCHANGED <<mode, should_die, is_dead, mailbox, rx_alive, wpc, cur,
                   interpreted, res, kills, preKill, lateWait, stopsTaken, spurious,
                   midKill, terminated, lateTell>>

\* Condvar::wait may return without a notification
SpuriousWake(h) ==
    /\ hpc[h] = "w_blocked"
    /\ spurious < MaxSpurious
    /\ spurious' = spurious + 1
    /\ hpc' = [hpc EXCEPT ![h] = "w_wake"]
    /\ UNCHANGED <<mode, should_die, is_dead, mutex, mailbox, rx_alive, wpc,
                   cur, interpreted, res, kills, preKill, lateWait,
                   stopsTaken, midKill, terminated, lateTell>>

\* ------------------------------------------------------------- the worker
hunch == <<mode, hpc, res, kills, preKill, lateWait, spurious, midKill,
          terminated, lateTell>>
wunch == <<hunch, stopsTaken>>

\* What the loop does with the value of should_die it has loaded.
\* (A slip: the loop ends whatever the flag says.)
LoopBreaksOnFlagAlways(flag) == TRUE
LoopBreaksOnFlag(flag) == flag

\* loop_until_killed: `if self.should_die.load() { break }`
WCheck ==
    /\ wpc = "check"
    /\ wpc' = IF LoopBreaksOnFlag(should_die) THEN AfterLoop(mode) ELSE "recv"
    /\ UNCHANGED <<should_die, is_dead, mutex, mailbox, rx_alive, cur,
                   interpreted>>
    /\ UNCHANGED wunch

\* The record of the calls of interpreter.interpret after a call with
\* message m: calls with an unrecorded message leave no trace in it.
Logged(seq, m) == IF m = More THEN seq ELSE Append(seq, m)

\* loop_until_killed: `match consumer.recv()`; a message taken is handed to
\* interpreter.interpret at once
WRecv ==
    /\ wpc = "recv"
    /\ RecvResult # "blocked"
    /\ IF RecvResult = "RecvError"
       THEN /\ wpc' = AfterLoop(mode)
            /\ UNCHANGED <<mailbox, cur, interpreted, stopsTaken>>
       ELSE /\ mailbox' = Taken(mailbox)
            /\ IF Head(mailbox) = None
               THEN /\ wpc' = AfterLoop(mode)
                    /\ stopsTaken' = stopsTaken + 1
                    /\ UNCHANGED <<cur, interpreted>>
               ELSE /\ wpc' = "in_interp"
                    /\ cur' = Head(mailbox)
                    /\ interpreted' = Logged(interpreted, Head(mailbox))
                    /\ UNCHANGED stopsTaken
    /\ UNCHANGED <<should_die, is_dead, mutex, rx_alive>>
    /\ UNCHANGED hunch

\* cleanup: `while let Ok(message) = consumer.try_recv()`; a message taken
\* is handed to interpreter.interpret at once
WCleanup ==
    /\ wpc = "cleanup"
    /\ IF mailbox = <<>>
       THEN /\ wpc' = AfterCleanup
            /\ UNCHANGED <<mailbox, cur, interpreted, stopsTaken>>
       ELSE /\ mailbox' = Taken(mailbox)
            /\ IF Head(mailbox) = None
               THEN /\ wpc' = CleanupOnStop
                    /\ stopsTaken' = stopsTaken + 1
                    /\ UNCHANGED <<cur, interpreted>>
               ELSE /\ wpc' = "c_in_interp"
                    /\ cur' = Head(mailbox)
                    /\ interpreted' = Logged(interpreted, Head(mailbox))
                    /\ UNCHANGED stopsTaken
    /\ UNCHANGED <<should_die, is_dead, mutex, rx_alive>>
    /\ UNCHANGED hunch

\* interpreter.interpret(message) returns
WInterpretReturn ==
    /\ wpc \in {"in_interp", "c_in_interp"}
    /\ wpc' = AfterInterpret(wpc)
    /\ cur' = None
    /\ UNCHANGED <<should_die, is_dead, mutex, mailbox, rx_alive,
                   interpreted>>
    /\ UNCHANGED wunch

\* interpreter.interpret(message) panics: the worker thread starts unwinding
WInterpretPanic ==
    /\ wpc \in {"in_interp", "c_in_interp"}
    /\ wpc' = "panicking"
    /\ cur' = None
    /\ UNCHANGED <<should_die, is_dead, mutex, mailbox, rx_alive,
                   interpreted>>
    /\ UNCHANGED wunch

\* Where the worker thread ends when the panic has unwound the closure.
\* (A slip for the model of the code: a guard that runs die() on unwinding.)
AfterUnwindRunsDie == "die_drop"
AfterUnwind == "aborted"

\* Unwinding drops the closure's captures: actor, consumer and interpreter.
\* die() is never run.
WUnwind ==
    /\ wpc = "panicking"
    /\ wpc' = AfterUnwind
    /\ rx_alive' = FALSE
    /\ mailbox' = <<>>
    /\ UNCHANGED <<should_die, is_dead, mutex, cur, interpreted>>
    /\ UNCHANGED wunch

\* die: the Arcs are cloned and `drop(self)` releases the worker's Sender
WDieDrop ==
    /\ wpc = "die_drop"
    /\ wpc' = "die_lock"
    /\ UNCHANGED <<should_die, is_dead, mutex, mailbox, rx_alive, cur,
                   interpreted>>
    /\ UNCHANGED wunch

\* die: `is_dead.lock()`
WDieLock ==
    /\ wpc = "die_lock"
    /\ mutex = Free
    /\ mutex' = Worker
    /\ wpc' = "die_set"
    /\ UNCHANGED <<should_die, is_dead, mailbox, rx_alive, cur, interpreted>>
    /\ UNCHANGED wunch

\* die: `*guard = true`
WDieSet ==
    /\ wpc = "die_set"
    /\ is_dead' = TRUE
    /\ wpc' = "die_notify"
    /\ UNCHANGED <<should_die, mutex, mailbox, rx_alive, cur, interpreted>>
    /\ UNCHANGED wunch

\* die: `till_death.notify_all()`
WDieNotify ==
    /\ wpc = "die_notify"
    /\ hpc' = NotifyAll(hpc)
    /\ wpc' = "die_unlock"
    /\ UNCHANGED <<mode, should_die, is_dead, mutex, mailbox, rx_alive, cur,
                   interpreted, res, kills, preKill, lateWait, stopsTaken, spurious,
                   midKill, terminated, lateTell>>

\* die returns: the guard is released
WDieUnlock ==
    /\ wpc = "die_unlock"
    /\ mutex = Worker
    /\ mutex' = Free
    /\ wpc' = AfterDie
    /\ UNCHANGED <<should_die, is_dead, mailbox, rx_alive, cur, interpreted>>
    /\ UNCHANGED wunch

\* The worker closure returns: consumer and interpreter are dropped, and
\* with the Receiver every item still queued
WExit ==
    /\ wpc = "closure_end"
    /\ wpc' = "exited"
    /\ rx_alive' = FALSE
    /\ mailbox' = <<>>
    /\ UNCHANGED <<should_die, is_dead, mutex, cur, interpreted>>
    /\ UNCHANGED wunch

\* ------------------------------------------------------------------ Next
WorkerStep ==
    \/ WCheck
    \/ WRecv
    \/ WCleanup
    \/ WInterpretReturn
    \/ WDieDrop
    \/ WDieLock
    \/ WDieSet
    \/ WDieNotify
    \/ WDieUnlock
    \/ WExit

\* Steps a caller thread takes to finish a call it has begun.
CallerProgress(h) ==
    \/ KillSend(h)
    \/ WaitLock(h)
    \/ WaitCheck(h)

\* Calls a caller thread may or may not make.
CallerChoice(h) ==
    \/ Tell(h)
    \/ KillStore(h)
    \/ Clone(h)
    \/ Drop(h)
    \/ WaitStart(h)
    \/ SpuriousWake(h)

Next ==
    \/ WorkerStep
    \/ WInterpretPanic
    \/ WUnwind
    \/ \E h \in Handles : CallerProgress(h)
    \/ \E h \in Handles : CallerChoice(h)

Spec == Init /\ [][Next]_vars

\* The scheduler runs every thread that can run: the worker thread, and each
\* caller thread inside a call.  Nothing forces a caller to make a call, nor
\* an interpreter to fail.
Fairness ==
    /\ WF_vars(WorkerStep)
    /\ WF_vars(WUnwind)
    /\ \A h \in Handles : WF_vars(CallerProgress(h))

FairSpec == Init /\ [][Next]_vars /\ Fairness

\* The same program with senders that never have to stop: Spec lets every
\* sender fall silent after MaxTells calls, OpenSpec keeps no record of the
\* tells and sets no limit to their number.  Every call of the interpreter
\* returns.
OpenCallerChoice(h) ==
    \/ TellMore(h)
    \/ KillStore(h)
    \/ Clone(h)
    \/ Drop(h)
    \/ WaitStart(h)
    \/ SpuriousWake(h)

OpenNext ==
    \/ WorkerStep
    \/ \E h \in Handles : CallerProgress(h)
    \/ \E h \in Handles : OpenCallerChoice(h)

OpenSpec == Init /\ [][OpenNext]_vars

OpenFairness ==
    /\ WF_vars(WorkerStep)
    /\ \A h \in Handles : WF_vars(CallerProgress(h))

OpenFairSpec == Init /\ [][OpenNext]_vars /\ OpenFairness

TypeOK ==
    /\ mode \in Modes
    /\ should_die \in BOOLEAN
    /\ is_dead \in BOOLEAN
    /\ mutex \in {Free, Worker} \cup Handles
    /\ rx_alive \in BOOLEAN
    /\ midKill \in BOOLEAN
    /\ terminated \in BOOLEAN
    /\ lateTell \in BOOLEAN
    /\ \A h \in Handles : Len(res[h]) <= MaxTells

\* ------------------------------------------- the self-terminating actor
\* Actor::suicidal is unimplemented!() in src/src/lib.rs; tests/suicidal.rs
\* uses SuicidalActor::new with an interpreter whose process() returns a
\* bool.  The worker of that actor is taken from the specification: it runs
\* the same receive loop, and when process() returns true it leaves Running
\* for Draining(Immediate), which discards the mailbox and goes to Dead.  The
\* handle, the flag, the latch and die() are the ones of the source.

\* State returned by SuicidalActor::new.
SuicidalInit ==
    /\ mode = "suicidal"
    /\ should_die = FALSE
    /\ is_dead = FALSE
    /\ mutex = Free
    /\ mailbox = <<>>
    /\ rx_alive = TRUE
    /\ wpc = "check"
    /\ cur = None
    /\ interpreted = <<>>
    /\ hpc = [h \in Handles |-> IF h = 1 THEN "held" ELSE "none"]
    /\ res = [h \in Handles |-> <<>>]
    /\ kills = [h \in Handles |-> 0]
    /\ preKill = [h \in Handles |-> 0]
    /\ lateWait = [h \in Handles |-> FALSE]
    /\ stopsTaken = 0
    /\ spurious = 0
    /\ midKill = FALSE
    /\ terminated = FALSE
    /\ lateTell = FALSE

\* Where the worker goes when process() has returned true: Immediate mode,
\* nothing more is taken from the mailbox.
AfterTerminateKeepsRunning == "check"
AfterTerminate == "die_drop"

\* interpreter.process(message) returns true
WInterpretTerminate ==
    /\ mode = "suicidal"
    /\ wpc = "in_interp"
    /\ wpc' = AfterTerminate
    /\ cur' = None
    /\ terminated' = TRUE
    /\ UNCHANGED <<mode, should_die, is_dead, mutex, mailbox, rx_alive,
                   interpreted, hpc, res, kills, preKill, lateWait,
                   stopsTaken, spurious, midKill, lateTell>>

\* The worker of a self-terminating actor. WInterpretReturn is process()
\* returning false; there is no drain.
SuicidalWorkerStep ==
    \/ WCheck
    \/ WRecv
    \/ WInterpretReturn
    \/ WInterpretTerminate
    \/ WDieDrop
    \/ WDieLock
    \/ WDieSet
    \/ WDieNotify
    \/ WDieUnlock
    \/ WExit

SuicidalNext ==
    \/ SuicidalWorkerStep
    \/ WInterpretPanic
    \/ WUnwind
    \/ \E h \in Handles : CallerProgress(h)
    \/ \E h \in Handles : CallerChoice(h)

SuicidalSpec == SuicidalInit /\ [][SuicidalNext]_vars

SuicidalFairness ==
    /\ WF_vars(SuicidalWorkerStep)
    /\ WF_vars(WUnwind)
    /\ \A h \in Handles : WF_vars(CallerProgress(h))

SuicidalFairSpec == SuicidalInit /\ [][SuicidalNext]_vars /\ SuicidalFairness

\* ------------------------------------------------- vocabulary of the claims
\* Number of times message m was passed to the interpreter.
Count(m, seq) == Cardinality({i \in 1..Len(seq) : seq[i] = m})

\* Every message was passed to the interpreter at most once.
AtMostOnce == \A i, j \in 1..Len(interpreted) :
                  interpreted[i] = interpreted[j] => i = j

\* The interpreter saw the messages of each sender in the order of its tells.
SenderOrder == \A i, j \in 1..Len(interpreted) :
                   (i < j /\ interpreted[i][1] = interpreted[j][1])
                       => interpreted[i][2] < interpreted[j][2]

\* The worker is inside an interpreter call.
Interpreting == wpc \in {"in_interp", "c_in_interp"}

\* The step is a tell() through handle h; its result.
TellStep(h) == Len(res'[h]) = Len(res[h]) + 1
TellResult(h) == res'[h][Len(res'[h])]

\* The step is the first or the second statement of a kill() through h.
KillStoreStep(h) == hpc[h] = "held" /\ hpc'[h] = "kill_send"
KillSendStep(h) == hpc[h] = "kill_send" /\ hpc'[h] = "held"

\* The thread of handle h is inside wait().
InWait(h) == hpc[h] \in {"w_lock", "w_check", "w_blocked", "w_wake"}

\* ---------------------------------------------------------------- claims

\* C1: on a graceful actor, once is_dead is true every message whose tell()
\* completed before any kill() began has been passed to the interpreter
\* exactly once, and the interpreter saw each sender's messages in send order.
C1_GracefulDeliversAll ==
    (mode = "graceful" /\ is_dead) =>
        /\ \A h \in Handles : \A k \in 1..preKill[h] :
               Count(<<h, k>>, interpreted) = 1
        /\ SenderOrder

\* Two tells of one sender, then a kill: the graceful actor died having
\* interpreted both.
C1_Witness ==
    /\ mode = "graceful"
    /\ is_dead
    /\ \E h \in Handles : preKill[h] = 2
    /\ Len(interpreted) = 2

\* C2 as stated: under fair scheduling, once some handle has called kill()
\* the worker sets is_dead unless an interpreter call fails, and every
\* thread inside wait(), entered before or after the kill(), returns.
C2_ShutdownLive ==
    /\ should_die ~> (is_dead \/ Failed)
    /\ \A h \in Handles :
           (should_die /\ InWait(h)) ~> (hpc[h] = "done" \/ Failed)

\* A tell() of TellMore is accepted in this step.
TellMoreStep == mailbox' = Append(mailbox, More)

\* C2 amended: the same, for senders that may tell without end, (i) in
\* disgraceful mode always, and (ii) in graceful mode in every run in which
\* the senders at some time stop telling: the drain ends only when it finds
\* the mailbox empty, so tells that keep arriving keep the worker draining.
C2_ShutdownLiveWhenTellsStop ==
    /\ (mode = "disgraceful" /\ should_die) ~> (is_dead \/ Failed)
    /\ \A h \in Handles :
           (mode = "disgraceful" /\ should_die /\ InWait(h))
               ~> (hpc[h] = "done" \/ Failed)
    /\ <>[][~TellMoreStep]_vars =>
           /\ should_die ~> (is_dead \/ Failed)
           /\ \A h \in Handles :
                  (should_die /\ InWait(h)) ~> (hpc[h] = "done" \/ Failed)

\* One clone killed a graceful actor and then told it once more; the drain
\* came to an empty mailbox all the same, and another clone, which began to
\* wait while the actor was alive, has returned from wait().
C2_Witness ==
    \E h1, h2 \in Handles :
        /\ h1 # h2
        /\ mode = "graceful"
        /\ kills[h1] > 0
        /\ lateTell
        /\ is_dead
        /\ hpc[h2] = "done"
        /\ ~lateWait[h2]

\* C3: without any kill(), once every handle has been dropped or consumed by
\* wait() the worker reaches Dead (is_dead is set), unless the interpreter
\* failed.
C3_AllHandlesGoneDies ==
    ((\A h \in Handles : ~HandleHoldsSender(h)) /\ ~should_die)
        ~> (is_dead \/ Failed)

\* C4: a wait() called when is_dead is already true never parks on the
\* condition variable.
C4_LateWaitNeverParks ==
    \A h \in Handles : lateWait[h] => hpc[h] \notin {"w_blocked", "w_wake"}

\* A wait() called on a dead actor has returned.
C4_Witness == \E h \in Handles : lateWait[h] /\ hpc[h] = "done"

\* C5: with no interpreter failure, a tell() returns DeadActor exactly when
\* the worker thread has already exited; in the receive loop, in the drain
\* and in die() it returns Ok.
C5_DeadActorIffExited ==
    [][\A h \in Handles :
           (TellStep(h) /\ ~Failed)
               => (TellResult(h) = "DeadActor" <=> wpc = "exited")]_vars

\* One handle was told Ok and later, the worker gone, DeadActor.
C5_Witness ==
    /\ wpc = "exited"
    /\ \E h \in Handles : res[h] = <<"Ok", "DeadActor">>

\* C6 as stated: a tell() through a handle on which kill() has been called
\* returns Ok, whatever the worker has done (no interpreter call having
\* failed).
C6_TellAfterKillOk ==
    [][\A h \in Handles :
           (TellStep(h) /\ kills[h] > 0 /\ ~Failed)
               => TellResult(h) = "Ok"]_vars

\* C6 amended: a tell() through a handle on which kill() has been called
\* returns Ok as long as the worker thread has not finished, and DeadActor
\* once it has.
C6_TellAfterKillOkUntilExit ==
    [][\A h \in Handles :
           (TellStep(h) /\ kills[h] > 0)
               => (TellResult(h) = "Ok" <=> wpc \notin {"exited", "aborted"})]_vars

\* Only handle h has called kill(), and a tell() it made after that was Ok.
C6_Witness ==
    \E h \in Handles :
        /\ kills[h] > 0
        /\ TotalKills = kills[h]
        /\ hpc[h] = "held"
        /\ Len(res[h]) > preKill[h]
        /\ res[h][Len(res[h])] = "Ok"

\* C7: a kill() has no effect beyond the first one. No statement of kill()
\* changes is_dead, the messages interpreted, a tell() result or the worker's
\* position; a store to a flag already set changes nothing; the send adds one
\* stop marker, or nothing when the receiver is gone. A stop marker changes
\* the worker's course only as the first one taken, by recv in the receive
\* loop; any other is taken by the drain, which goes on as if it was not
\* there.
C7_KillIdempotent ==
    [][/\ \A h \in Handles :
              KillStoreStep(h) =>
                  /\ should_die'
                  /\ UNCHANGED <<is_dead, interpreted, res, wpc, mailbox>>
       /\ \A h \in Handles :
              KillSendStep(h) =>
                  /\ UNCHANGED <<should_die, is_dead, interpreted, res, wpc>>
                  /\ mailbox' = IF rx_alive THEN Append(mailbox, None)
                                ELSE mailbox
       /\ stopsTaken' # stopsTaken =>
              \/ wpc = "recv" /\ stopsTaken = 0
              \/ /\ wpc = "cleanup" /\ wpc' = "cleanup"
                 /\ UNCHANGED <<should_die, is_dead, interpreted, res, cur>>]_vars

\* Two kill() calls on a graceful actor: the worker took both stop markers
\* and died.
C7_Witness ==
    /\ TotalKills = 2
    /\ stopsTaken = 2
    /\ is_dead

\* C8: once the worker of a disgraceful actor has left the receive loop the
\* interpreter is not called again, and no message is interpreted twice.
C8_DisgracefulNeverDrains ==
    /\ [][(mode = "disgraceful" /\ wpc \notin InLoop)
              => interpreted' = interpreted]_vars
    /\ [](mode = "disgraceful" => AtMostOnce)

\* A disgraceful actor exited having interpreted one message and discarded
\* another that was accepted.
C8_Witness ==
    /\ mode = "disgraceful"
    /\ wpc = "exited"
    /\ Len(interpreted) = 1
    /\ \E h \in Handles : \E k \in 1..Len(res[h]) :
           res[h][k] = "Ok" /\ Count(<<h, k>>, interpreted) = 0

\* C9: is_dead is true only after some handle has called kill().
C9_DeadOnlyAfterKill == is_dead => (should_die /\ TotalKills > 0)

\* A wait() has returned while another handle is still held.
C9_Witness ==
    \E h1, h2 \in Handles :
        hpc[h1] = "done" /\ hpc[h2] = "held" /\ is_dead

\* C10: when is_dead is true the worker is neither inside nor about to start
\* an interpreter call, and a wait() returns only when is_dead is true.
C10_NoInterpretWhenDead ==
    /\ is_dead => ~Interpreting
    /\ \A h \in Handles : hpc[h] = "done" => is_dead

\* tell, kill, wait on a graceful actor: wait() has returned and the message
\* has been interpreted.
C10_Witness ==
    /\ mode = "graceful"
    /\ hpc[1] = "done"
    /\ res[1] = <<"Ok">>
    /\ interpreted = << <<1, 1>> >>

\* C12: once an interpreter call has panicked the worker never runs die():
\* it stays failed, is_dead is false and stays false, no wait() has returned
\* or returns, and no further message is interpreted.
C12_PanicNeverDies ==
    /\ [](Failed => (~is_dead /\ \A h \in Handles : hpc[h] # "done"))
    /\ [][Failed => (Failed' /\ interpreted' = interpreted)]_vars

\* The interpreter panicked while another message was queued; the worker
\* thread is gone, a waiter is parked, and a later kill() has been made.
C12_Witness ==
    /\ wpc = "aborted"
    /\ should_die
    /\ \E h \in Handles : hpc[h] = "w_blocked"
    /\ \E h \in Handles : \E k \in 1..Len(res[h]) :
           res[h][k] = "Ok" /\ Count(<<h, k>>, interpreted) = 0

\* C13: should_die and is_dead never go back from true to false, and
\* is_dead is written only by the worker, in die(), which makes it go from
\* false to true once; no step of a handle changes it.
C13_FlagsMonotone ==
    [][/\ should_die => should_die'
       /\ is_dead => is_dead'
       /\ is_dead' # is_dead => (wpc = "die_set" /\ hpc' = hpc /\ res' = res)]_vars

\* Two kill() calls were made and the actor is dead: both flags are set.
C13_Witness ==
    /\ TotalKills = 2
    /\ should_die
    /\ is_dead
    /\ \A h \in Handles : hpc[h] # "kill_send"

\* The worker step leaves the receive loop other than by a panic.
LeavesLoop == wpc \in InLoop /\ wpc' \notin InLoop /\ wpc' # "panicking"

\* C14 as stated: the worker leaves the receive loop only on a stop marker,
\* on the channel being closed, or on finding the flag set right after it
\* has interpreted a message: never on the flag alone before it has received
\* anything.
C14_LeavesLoopOnlyAfterReceive ==
    [][LeavesLoop =>
           \/ wpc = "recv"
           \/ wpc = "check" /\ should_die /\ interpreted # <<>>]_vars

\* C14 amended: the worker leaves the receive loop only on a stop marker, on
\* the channel being closed, or on finding the flag set at the top of the
\* loop, which it tests before every recv, the first one included. A message
\* at the head of the mailbox of a worker that is in recv is interpreted.
C14_LeavesLoopOnFlagOrStop ==
    [][/\ LeavesLoop =>
              \/ wpc = "recv" /\ RecvResult = "RecvError"
              \/ wpc = "recv" /\ RecvResult = "item" /\ Head(mailbox) = None
              \/ wpc = "check" /\ should_die
       /\ (wpc = "recv" /\ wpc' # wpc /\ mailbox # <<>> /\ Head(mailbox) # None)
              => (wpc' = "in_interp"
                  /\ interpreted' = Append(interpreted, Head(mailbox)))]_vars

\* A disgraceful worker left the loop on the flag before it had received
\* anything: the message that was queued was never interpreted.
C14_Witness ==
    /\ mode = "disgraceful"
    /\ wpc = "exited"
    /\ stopsTaken = 0
    /\ interpreted = <<>>
    /\ \E h \in Handles : res[h] # <<>> /\ res[h][1] = "Ok"

\* C16: in the graceful drain a stop marker is taken and dropped and the
\* drain goes on; a message taken is handed to the interpreter; the drain
\* ends only when it finds the mailbox empty. So a message that sits behind a
\* stop marker when the drain polls, told before or after the kill(), is
\* interpreted before die() runs.
C16_DrainSkipsStop ==
    [][(wpc = "cleanup" /\ wpc' # wpc) =>
           /\ mailbox = <<>> =>
                  wpc' = "die_drop" /\ UNCHANGED <<mailbox, interpreted>>
           /\ (mailbox # <<>> /\ Head(mailbox) # None) =>
                  /\ wpc' = "c_in_interp"
                  /\ mailbox' = Tail(mailbox)
                  /\ interpreted' = Append(interpreted, Head(mailbox))
           /\ (mailbox # <<>> /\ Head(mailbox) = None) => FALSE]_vars
       /\ [][(wpc = "cleanup" /\ wpc' = wpc /\ mailbox' # mailbox
                  /\ stopsTaken' # stopsTaken) =>
                 (mailbox' = Tail(mailbox) /\ interpreted' = interpreted)]_vars

\* One handle killed a graceful actor twice and told it one message after
\* its first kill(): the worker took both stop markers and interpreted the
\* message, which was behind a marker, before it died.
C16_Witness ==
    /\ mode = "graceful"
    /\ is_dead
    /\ hpc[2] = "none"
    /\ kills[1] = 2
    /\ stopsTaken = 2
    /\ preKill[1] = 0
    /\ res[1] = <<"Ok">>
    /\ interpreted = << <<1, 1>> >>

\* C17: in both modes every message occurs at most once in the sequence
\* handed to the interpreter, every message in it was accepted by a tell(),
\* and the messages of one sender occur in it in the order of its tells.
C17_AtMostOnceInOrder ==
    /\ AtMostOnce
    /\ SenderOrder
    /\ \A i \in 1..Len(interpreted) :
           LET h == interpreted[i][1]
               k == interpreted[i][2]
           IN  h \in Handles /\ k \in 1..Len(res[h]) /\ res[h][k] = "Ok"

\* Two senders: the interpreter was given a message of each, one taken by the
\* receive loop and one by the drain.
C17_Witness ==
    /\ Len(interpreted) = 2
    /\ interpreted[1][1] # interpreted[2][1]
    /\ stopsTaken = 1
    /\ is_dead

\* C18 as stated: once is_dead is true every tell() returns DeadActor.
C18_DeadLatchMeansDeadActor ==
    [][\A h \in Handles :
           (TellStep(h) /\ is_dead) => TellResult(h) = "DeadActor"]_vars

\* C18 amended: once is_dead is true a tell() returns DeadActor exactly when
\* the worker closure has returned and released the Receiver; until then it
\* returns Ok, and the message it enqueued is never interpreted.
C18_DeadActorAfterLatchAndExit ==
    [][/\ \A h \in Handles :
              (TellStep(h) /\ is_dead)
                  => (TellResult(h) = "DeadActor" <=> wpc = "exited")
       /\ is_dead => interpreted' = interpreted]_vars

\* A wait() on one clone has returned, and a tell() through another clone
\* has returned DeadActor.
C18_Witness ==
    \E h1, h2 \in Handles :
        /\ hpc[h1] = "done"
        /\ hpc[h2] = "held"
        /\ res[h2] # <<>>
        /\ res[h2][Len(res[h2])] = "DeadActor"

\* C15: the termination flag is read only between interpreter calls. A step
\* that sets the flag while a message is in interpret leaves the worker, the
\* message in hand and the interpreted sequence as they are; the worker
\* leaves an interpretation only by its return, to the flag test of the loop
\* (or to the next poll of the drain), or by a panic of the interpreter
\* itself; and it starts draining, discarding or dying from the flag test or
\* the receive, never from inside interpret.
C15_FlagReadBetweenInterprets ==
    [][/\ (Interpreting /\ should_die' # should_die) =>
              (wpc' = wpc /\ cur' = cur /\ interpreted' = interpreted)
       /\ (wpc = "in_interp" /\ wpc' # wpc) => wpc' \in {"check", "panicking"}
       /\ (wpc = "c_in_interp" /\ wpc' # wpc) =>
              wpc' \in {"cleanup", "panicking"}
       /\ (wpc \in InLoop /\ wpc' \in {"cleanup", "die_drop"}) =>
              (wpc \in {"check", "recv"} /\ should_die)]_vars

\* The first kill() stored the flag while a message was in interpret; that
\* interpretation returned and the worker went on to die and exit.
C15_Witness ==
    /\ midKill
    /\ wpc = "exited"
    /\ is_dead
    /\ interpreted # <<>>

\* C11: self-terminating actor. The step in which the interpreter returns the
\* 'terminate now' signal takes the worker out of Running whether or not a
\* kill() was made and leaves the mailbox as it is; from then on nothing is
\* handed to the interpreter, so what is left in the mailbox is discarded;
\* the worker reaches Dead and exits; and every tell() made after it has
\* exited returns DeadActor.
C11_SelfTerminates ==
    /\ [][(terminated' /\ ~terminated) =>
              /\ wpc = "in_interp" /\ wpc' = "die_drop"
              /\ UNCHANGED <<mailbox, should_die, interpreted>>]_vars
    /\ [][terminated => (terminated' /\ interpreted' = interpreted
                         /\ wpc' \notin InLoop \cup InCleanup)]_vars
    /\ terminated ~> (is_dead /\ wpc = "exited")
    /\ [][\A h \in Handles :
              (TellStep(h) /\ terminated /\ wpc = "exited")
                  => (TellResult(h) = "DeadActor" /\ mailbox' = <<>>)]_vars

\* No kill() was made: the interpreter processed the first message and asked
\* to terminate, the worker exited with is_dead set, and the next tell()
\* through the same handle returned DeadActor.
C11_Witness ==
    /\ mode = "suicidal"
    /\ terminated
    /\ TotalKills = 0
    /\ ~should_die
    /\ is_dead
    /\ wpc = "exited"
    /\ interpreted = << <<1, 1>> >>
    /\ res[1] = <<"Ok", "DeadActor">>
====
